---- MODULE Spec2Model ----
(***************************************************************************)
(* Model of wgpu_texture_copy (src/src/main.rs): a PNG is decoded, staged  *)
(* into a sampled texture, run through a compute kernel into a storage     *)
(* texture, copied into a row-aligned readback buffer, mapped, destrided   *)
(* and written back as a PNG.                                              *)
(*                                                                         *)
(* u32 values are pairs <<hi, lo>> of 16-bit limbs, so that the arithmetic *)
(* of align_up keeps its 32-bit width.  A build with overflow checks       *)
(* (the default of a debug build) panics on overflow, a build without      *)
(* them wraps; overflow_checks is chosen by Init.                          *)
(***************************************************************************)
EXTENDS Integers, Naturals, Sequences, FiniteSets, TLC

VARIABLES
    overflow_checks,  \* build profile: TRUE = arithmetic overflow panics
    fs_input,         \* data/test.png: "missing", "corrupt" or a decoded image
    kernel,           \* the compute kernel embedded at build time
    pc,               \* position of the host in main / run / ...
    width, height,    \* image.width(), image.height()
    buffer,           \* image.into_bytes(): the bytes handed to the core
    align_width,      \* row stride of the readback buffer
    texture,          \* texels of the input texture (row-major, tight)
    output_texture,   \* texels of the output texture
    output_buffer,    \* bytes of the readback buffer
    pending_writes,   \* queue.write_texture calls staged for the next submit
    encoder,          \* commands recorded in the command encoder
    gpu_queue,        \* operations submitted to the device, not yet executed
    submits,          \* number of queue.submit calls
    map_state,        \* readback buffer: "unmapped", "pending", "mapped"
    map_result,       \* what the map callback was invoked with
    receiver,         \* oneshot channel: "empty" or the value sent
    buffer_view,      \* bytes obtained by get_mapped_range
    read_src,         \* readback indices trim_image_buffer read, in order
    result,           \* Ok value of manipulate_buffer
    out_png,          \* data/out.png
    error,            \* error kind the run ended with
    exit_code,        \* process exit status, -1 while running
    calls,            \* how often each step of the host was executed
    view_ret,         \* what view_into_buffer returned: "none", "Ok", "Err"
    gpu_log,          \* operations the device has executed, in order
    al_mode, al_n, al_a, al_w, al_r, al_rr, al_phase  \* align_up harness

progvars == <<fs_input, kernel, pc, width, height, buffer, align_width,
              texture, output_texture, output_buffer, pending_writes, encoder,
              gpu_queue, submits, map_state, map_result, receiver, buffer_view,
              read_src, result, out_png, error, exit_code, calls, view_ret,
              gpu_log>>
alvars == <<al_mode, al_n, al_a, al_w, al_r, al_rr, al_phase>>
vars == <<overflow_checks, progvars, alvars>>

-----------------------------------------------------------------------------
(* 32-bit unsigned arithmetic on limb pairs *)

Limb == 2^16

PANIC == <<-1, -1>>

U32(n) == <<n \div Limb, n % Limb>>

Val(x) == x[1] * Limb + x[2]

IsU32(x) == x[1] \in 0..(Limb - 1) /\ x[2] \in 0..(Limb - 1)

Le32(x, y) == x[1] < y[1] \/ (x[1] = y[1] /\ x[2] <= y[2])

Lt32(x, y) == x[1] < y[1] \/ (x[1] = y[1] /\ x[2] < y[2])

\* The operations are functions, so that an operand is evaluated once.
Word == (-1..(Limb - 1)) \X (-1..(Limb - 1))

\* x + y: PANIC when the sum overflows and overflow is checked, else wrapped
add32[x \in Word, y \in Word] ==
    LET lo == x[2] + y[2]
        hi == x[1] + y[1] + (lo \div Limb)
    IN  IF x = PANIC \/ y = PANIC THEN PANIC
        ELSE IF hi >= Limb /\ overflow_checks THEN PANIC
        ELSE <<hi % Limb, lo % Limb>>

\* x - y: PANIC when the difference underflows and overflow is checked
sub32[x \in Word, y \in Word] ==
    LET lo == x[2] - y[2]
        borrow == IF lo < 0 THEN 1 ELSE 0
        hi == x[1] - y[1] - borrow
    IN  IF x = PANIC \/ y = PANIC THEN PANIC
        ELSE IF hi < 0 /\ overflow_checks THEN PANIC
        ELSE <<(hi + Limb) % Limb, (lo + Limb) % Limb>>

\* x * c for a small constant c
mul32[x \in Word, c \in 1..Limb] ==
    LET lo == x[2] * c
        hi == x[1] * c + (lo \div Limb)
    IN  IF x = PANIC THEN PANIC
        ELSE IF hi >= Limb /\ overflow_checks THEN PANIC
        ELSE <<hi % Limb, lo % Limb>>

\* x / c for a small constant c > 0 (c divides Limb)
div32[x \in Word, c \in 1..Limb] ==
    IF x = PANIC THEN PANIC
    ELSE <<x[1] \div c, ((x[1] % c) * Limb + x[2]) \div c>>

\* bitwise and of the low `bits` bits: bit i of the result is bit i of x
\* times bit i of y
RECURSIVE BitAnd(_, _, _)
BitAnd(x, y, bits) ==
    IF bits = 0 THEN 0
    ELSE ((x \div 2^(bits - 1)) % 2) * ((y \div 2^(bits - 1)) % 2) * 2^(bits - 1)
         + BitAnd(x, y, bits - 1)

and32[x \in Word, y \in Word] ==
    IF x = PANIC \/ y = PANIC THEN PANIC
    ELSE <<BitAnd(x[1], y[1], 16), BitAnd(x[2], y[2], 16)>>

not32[x \in Word] ==
    IF x = PANIC THEN PANIC
    ELSE <<(Limb - 1) - x[1], (Limb - 1) - x[2]>>

-----------------------------------------------------------------------------
(* Program constants *)

DATA_PER_PIXEL == 4

U8_SIZE == 1

COPY_BYTES_PER_ROW_ALIGNMENT == 256

\* exit status of a Rust process whose main thread panicked
PANIC_EXIT == 101

-----------------------------------------------------------------------------
(* align_up and the stride computation *)

\* a mutant: the addition of align - 1 is left out, the result rounds down
align_up_round_down(num, align) ==
    and32[num, not32[sub32[align, U32(1)]]]

\* a mutant: the - 1 is left out, a multiple is moved to the next multiple
align_up_next_multiple(num, align) ==
    and32[add32[num, align], not32[sub32[align, U32(1)]]]

align_up(num, align) ==
    and32[sub32[add32[num, align], U32(1)], not32[sub32[align, U32(1)]]]

\* lines 20-23: align_up(width * DATA_PER_PIXEL * U8_SIZE, ALIGNMENT) / U8_SIZE
row_stride(w) ==
    div32[align_up(mul32[mul32[w, DATA_PER_PIXEL], U8_SIZE],
                   U32(COPY_BYTES_PER_ROW_ALIGNMENT)), U8_SIZE]

-----------------------------------------------------------------------------
(* Harness for the pure helper: Init draws the inputs, the actions apply it *)

\* offsets added to each anchor
MaxOff == 12

\* exponents of the alignments 2^0 .. 2^31
Pow2(k) == IF k < 16 THEN <<0, 2^k>> ELSE <<2^(k - 16), 0>>

Aligns == {Pow2(k) : k \in 0..31}

\* 0, 256, 2^31, 2^32 - 512, 2^32 - 256, 2^32 - 1 - MaxOff
AlignAnchors ==
    {<<0, 0>>, <<0, 256>>, <<32768, 0>>, <<Limb - 1, Limb - 512>>,
     <<Limb - 1, Limb - 256>>, <<Limb - 1, Limb - 1 - MaxOff>>}

AlignNums == {<<x[1], x[2] + k>> : x \in AlignAnchors, k \in 0..MaxOff}

\* 1.., 64.., and the widths around 2^30 - 64 and 2^30 where 4 * W + A overflows
WidthAnchors == {<<0, 1>>, <<0, 64>>, <<16383, Limb - 70>>, <<16384, 0>>}

StrideWidths == {<<x[1], x[2] + k>> : x \in WidthAnchors, k \in 0..MaxOff}

Idle == <<0, 0>>

ProgIdle ==
    /\ fs_input = "missing" /\ kernel = "identity" /\ pc = "idle"
    /\ width = 0 /\ height = 0 /\ buffer = <<>> /\ align_width = 0
    /\ texture = <<>> /\ output_texture = <<>> /\ output_buffer = <<>>
    /\ pending_writes = <<>> /\ encoder = <<>> /\ gpu_queue = <<>>
    /\ submits = 0 /\ map_state = "unmapped" /\ map_result = "none"
    /\ receiver = "empty" /\ buffer_view = <<>> /\ read_src = <<>>
    /\ result = <<>> /\ out_png = [state |-> "untouched", bytes |-> <<>>]
    /\ error = "none" /\ exit_code = -1 /\ calls = <<>>
    /\ view_ret = "none" /\ gpu_log = <<>>

AlignInit ==
    /\ overflow_checks \in BOOLEAN
    /\ ProgIdle
    /\ al_phase = "input"
    /\ al_r = Idle /\ al_rr = Idle
    /\ \/ al_mode = "align" /\ al_n \in AlignNums /\ al_a \in Aligns /\ al_w = Idle
       \/ /\ al_mode = "stride" /\ al_w \in StrideWidths /\ al_n = Idle
          /\ al_a = U32(COPY_BYTES_PER_ROW_ALIGNMENT)

\* r = align_up(n, a)
ApplyAlign ==
    /\ al_mode = "align" /\ al_phase = "input"
    /\ al_r' = align_up(al_n, al_a)
    /\ al_phase' = "once"
    /\ UNCHANGED <<overflow_checks, progvars, al_mode, al_n, al_a, al_w, al_rr>>

\* rr = align_up(r, a): runs only when the first call returned
ApplyAgain ==
    /\ al_mode = "align" /\ al_phase = "once" /\ al_r # PANIC
    /\ al_rr' = align_up(al_r, al_a)
    /\ al_phase' = "twice"
    /\ UNCHANGED <<overflow_checks, progvars, al_mode, al_n, al_a, al_w, al_r>>

\* r = the align_width of compute_and_get_texture for width w
ApplyStride ==
    /\ al_mode = "stride" /\ al_phase = "input"
    /\ al_r' = row_stride(al_w)
    /\ al_phase' = "once"
    /\ UNCHANGED <<overflow_checks, progvars, al_mode, al_n, al_a, al_w, al_rr>>

AlignNext == ApplyAlign \/ ApplyAgain \/ ApplyStride

AlignSpec == AlignInit /\ [][AlignNext]_vars

-----------------------------------------------------------------------------
(* The program: inputs *)

MaxW == 3

MaxH == 2

MaxSeed == 1

\* width whose rows need no padding: 4 * 64 = 256
ExactWidth == COPY_BYTES_PER_ROW_ALIGNMENT \div DATA_PER_PIXEL

Widths == (1..MaxW) \cup {ExactWidth, ExactWidth + 1}

\* bytes per pixel of the decoded DynamicImage: Rgba8 = 4, Rgb8 = 3
ColorBytes == {4, 3}

\* what the padding of the readback buffer may hold
PadValues == {0, 170}

Kernels == {"identity", "invert"}

Pattern(seed, len) == [k \in 1..len |-> (seed * 101 + k) % 256]

Files ==
    {[kind |-> k, width |-> 0, height |-> 0, bpp |-> 0, seed |-> 0] :
        k \in {"missing", "corrupt"}}
    \cup
    {[kind |-> "png", width |-> w, height |-> h, bpp |-> b, seed |-> s] :
        w \in Widths, h \in 1..MaxH, b \in ColorBytes, s \in 0..MaxSeed}

Steps ==
    {"open", "decode", "request_adapter", "request_device", "align",
     "write_texture", "encode", "submit", "map_async", "poll", "await",
     "get_mapped_range", "trim", "unmap", "save"}

Init ==
    /\ overflow_checks \in BOOLEAN
    /\ fs_input \in Files
    /\ kernel \in Kernels
    /\ pc = "open"
    /\ width = 0 /\ height = 0 /\ buffer = <<>> /\ align_width = 0
    /\ texture = <<>> /\ output_texture = <<>> /\ output_buffer = <<>>
    /\ pending_writes = <<>> /\ encoder = <<>> /\ gpu_queue = <<>>
    /\ submits = 0 /\ map_state = "unmapped" /\ map_result = "none"
    /\ receiver = "empty" /\ buffer_view = <<>> /\ read_src = <<>>
    /\ result = <<>> /\ out_png = [state |-> "untouched", bytes |-> <<>>]
    /\ error = "none" /\ exit_code = -1
    /\ calls = [s \in Steps |-> 0]
    /\ view_ret = "none" /\ gpu_log = <<>>
    /\ al_mode = "off" /\ al_n = Idle /\ al_a = Idle /\ al_w = Idle
    /\ al_r = Idle /\ al_rr = Idle /\ al_phase = "off"

Called(step) == calls' = [calls EXCEPT ![step] = @ + 1]

\* an Err reaches main, whose unwrap panics; a panic anywhere ends the same way
Exit(kind) ==
    /\ pc' = "exit"
    /\ error' = kind
    /\ exit_code' = PANIC_EXIT

-----------------------------------------------------------------------------
(* Device operations and the destride, as functions of their operands *)

Zeros(len) == [k \in 1..len |-> 0]

\* bytes a linear layout must hold for an extent of w x h texels
RequiredBytes(bytes_per_row, w, h) ==
    bytes_per_row * (h - 1) + DATA_PER_PIXEL * w

\* queue.write_texture: texel row i is read at data[i * bytes_per_row ..]
WriteTexels(data, bytes_per_row, w, h) ==
    LET row == DATA_PER_PIXEL * w
    IN  [k \in 1..(row * h) |->
            data[((k - 1) \div row) * bytes_per_row + ((k - 1) % row) + 1]]

\* the kernel's value for byte k of the output texel it belongs to
KernelByte(kern, tex, k) ==
    IF kern = "invert" /\ (k - 1) % DATA_PER_PIXEL < 3
    THEN 255 - tex[k]
    ELSE tex[k]

\* dispatch_workgroups(gx, gy, 1) with workgroup size (1,1,1): invocation
\* (x, y) writes output texel (x, y)
Dispatch(kern, tex, out, gx, gy, w) ==
    LET row == DATA_PER_PIXEL * w
    IN  [k \in 1..Len(out) |->
            IF ((k - 1) % row) \div DATA_PER_PIXEL < gx /\ (k - 1) \div row < gy
            THEN KernelByte(kern, tex, k)
            ELSE out[k]]

\* a mutant: the rows are written packed, bytes_per_row is ignored
CopyTextureToBufferPacked(tex, buf, bytes_per_row, w, h) ==
    LET row == DATA_PER_PIXEL * w
    IN  [k \in 1..Len(buf) |-> IF k <= row * h THEN tex[k] ELSE buf[k]]

\* copy_texture_to_buffer: texel row i lands at buf[i * bytes_per_row ..],
\* the rest of the buffer keeps what it held
CopyTextureToBuffer(tex, buf, bytes_per_row, w, h) ==
    LET row == DATA_PER_PIXEL * w
    IN  [k \in 1..Len(buf) |->
            IF (k - 1) % bytes_per_row < row /\ (k - 1) \div bytes_per_row < h
            THEN tex[((k - 1) \div bytes_per_row) * row
                     + ((k - 1) % bytes_per_row) + 1]
            ELSE buf[k]]

\* what the device requires of the destination layout of the copy
CopyLayoutValid(bytes_per_row, size, w, h) ==
    /\ bytes_per_row % COPY_BYTES_PER_ROW_ALIGNMENT = 0
    /\ bytes_per_row >= DATA_PER_PIXEL * w
    /\ RequiredBytes(bytes_per_row, w, h) <= size

\* a mutant: the rows are taken to be packed, align_width = width
trim_reads_packed(w, h, len) ==
    [k \in 1..(w * h) |-> ((k - 1) \div w) * w + ((k - 1) % w)]

\* a mutant: the inner loop runs over the whole padded row
trim_reads_whole_rows(w, h, len) ==
    [k \in 1..((len \div h) * h) |-> k - 1]

\* the indices trim_image_buffer reads, in the order of its pushes: push
\* number k (from 1) is made at i = (k - 1) / width, j = (k - 1) % width
trim_reads(w, h, len) ==
    LET aw == len \div h
    IN  [k \in 1..(w * h) |-> ((k - 1) \div w) * aw + ((k - 1) % w)]

trim_image_buffer(w, h, buf) ==
    LET reads == trim_reads(w, h, Len(buf))
    IN  [k \in 1..Len(reads) |-> buf[reads[k] + 1]]

-----------------------------------------------------------------------------
(* The program: one action per step of the host, one for the device *)

\* run: File::open, BufReader, with_guessed_format
OpenFile ==
    /\ pc = "open"
    /\ Called("open")
    /\ IF fs_input.kind = "missing"
       THEN Exit("IoError")
       ELSE pc' = "decode" /\ UNCHANGED <<error, exit_code>>
    /\ UNCHANGED <<overflow_checks, fs_input, kernel, width, height, buffer,
                   align_width, texture, output_texture, output_buffer,
                   pending_writes, encoder, gpu_queue, submits, map_state,
                   map_result, receiver, buffer_view, read_src, result, out_png,
                   view_ret, gpu_log, alvars>>

\* run: reader.decode, image.width, image.height, image.into_bytes;
\* into_bytes hands out the bytes of the decoded layout as they are
Decode ==
    /\ pc = "decode"
    /\ Called("decode")
    /\ IF fs_input.kind = "corrupt"
       THEN /\ Exit("DecodeError")
            /\ UNCHANGED <<width, height, buffer>>
       ELSE /\ width' = fs_input.width
            /\ height' = fs_input.height
            /\ buffer' = Pattern(fs_input.seed,
                                 fs_input.bpp * fs_input.width * fs_input.height)
            /\ pc' = "request_adapter"
            /\ UNCHANGED <<error, exit_code>>
    /\ UNCHANGED <<overflow_checks, fs_input, kernel, align_width, texture,
                   output_texture, output_buffer, pending_writes, encoder,
                   gpu_queue, submits, map_state, map_result, receiver,
                   buffer_view, read_src, result, out_png, view_ret, gpu_log,
                   alvars>>

\* a mutant: a missing adapter ends the run as if it had succeeded
RequestAdapterSwallowed ==
    /\ pc = "request_adapter"
    /\ Called("request_adapter")
    /\ \E found \in BOOLEAN :
          IF found
          THEN pc' = "request_device" /\ UNCHANGED <<error, exit_code>>
          ELSE pc' = "exit" /\ error' = "NoAdapter" /\ exit_code' = 0
    /\ UNCHANGED <<overflow_checks, fs_input, kernel, width, height, buffer,
                   align_width, texture, output_texture, output_buffer,
                   pending_writes, encoder, gpu_queue, submits, map_state,
                   map_result, receiver, buffer_view, read_src, result, out_png,
                   view_ret, gpu_log, alvars>>

\* get_device_and_queue: request_adapter, or bail
RequestAdapter ==
    /\ pc = "request_adapter"
    /\ Called("request_adapter")
    /\ \E found \in BOOLEAN :
          IF found
          THEN pc' = "request_device" /\ UNCHANGED <<error, exit_code>>
          ELSE Exit("NoAdapter")
    /\ UNCHANGED <<overflow_checks, fs_input, kernel, width, height, buffer,
                   align_width, texture, output_texture, output_buffer,
                   pending_writes, encoder, gpu_queue, submits, map_state,
                   map_result, receiver, buffer_view, read_src, result, out_png,
                   view_ret, gpu_log, alvars>>

\* get_device_and_queue: request_device, map_err
RequestDevice ==
    /\ pc = "request_device"
    /\ Called("request_device")
    /\ \E granted \in BOOLEAN :
          IF granted
          THEN pc' = "align" /\ UNCHANGED <<error, exit_code>>
          ELSE Exit("DeviceRequestFailed")
    /\ UNCHANGED <<overflow_checks, fs_input, kernel, width, height, buffer,
                   align_width, texture, output_texture, output_buffer,
                   pending_writes, encoder, gpu_queue, submits, map_state,
                   map_result, receiver, buffer_view, read_src, result, out_png,
                   view_ret, gpu_log, alvars>>

\* compute_and_get_texture: align_width
ComputeAlignWidth ==
    /\ pc = "align"
    /\ Called("align")
    /\ LET stride == row_stride(U32(width))
       IN  IF stride = PANIC
           THEN Exit("panic: overflow") /\ UNCHANGED align_width
           ELSE /\ align_width' = Val(stride)
                /\ pc' = "write_texture"
                /\ UNCHANGED <<error, exit_code>>
    /\ UNCHANGED <<overflow_checks, fs_input, kernel, width, height, buffer,
                   texture, output_texture, output_buffer, pending_writes,
                   encoder, gpu_queue, submits, map_state, map_result, receiver,
                   buffer_view, read_src, result, out_png, view_ret, gpu_log,
                   alvars>>

\* compute_and_get_texture: create the input texture and stage the upload;
\* a source shorter than the layout needs is a validation error, which the
\* default error handler turns into a panic
WriteTexture ==
    /\ pc = "write_texture"
    /\ Called("write_texture")
    /\ LET bytes_per_row == DATA_PER_PIXEL * width
       IN  IF RequiredBytes(bytes_per_row, width, height) > Len(buffer)
           THEN /\ Exit("panic: validation")
                /\ UNCHANGED <<texture, pending_writes>>
           ELSE /\ texture' = Zeros(DATA_PER_PIXEL * width * height)
                /\ pending_writes' = Append(pending_writes,
                      [op |-> "write_texture", data |-> buffer,
                       bytes_per_row |-> bytes_per_row])
                /\ pc' = "encode"
                /\ UNCHANGED <<error, exit_code>>
    /\ UNCHANGED <<overflow_checks, fs_input, kernel, width, height, buffer,
                   align_width, output_texture, output_buffer, encoder,
                   gpu_queue, submits, map_state, map_result, receiver,
                   buffer_view, read_src, result, out_png, view_ret, gpu_log,
                   alvars>>

\* compute_and_get_texture: output texture, compute pass, readback buffer,
\* copy command; what the padding of the buffer holds is left open
EncodeCommands ==
    /\ pc = "encode"
    /\ Called("encode")
    /\ output_texture' = Zeros(DATA_PER_PIXEL * width * height)
    /\ \E fill \in PadValues :
          output_buffer' = [k \in 1..(align_width * height) |-> fill]
    /\ encoder' = <<[op |-> "dispatch", data |-> <<width, height>>,
                     bytes_per_row |-> 0],
                    [op |-> "copy_texture_to_buffer", data |-> <<>>,
                     bytes_per_row |-> align_width]>>
    /\ pc' = "submit"
    /\ UNCHANGED <<overflow_checks, fs_input, kernel, width, height, buffer,
                   align_width, texture, pending_writes, gpu_queue, submits,
                   map_state, map_result, receiver, buffer_view, read_src,
                   result, out_png, error, exit_code, view_ret, gpu_log, alvars>>

\* compute_and_get_texture: encoder.finish, queue.submit; the staged writes
\* run before the submitted commands
Submit ==
    /\ pc = "submit"
    /\ Called("submit")
    /\ IF ~CopyLayoutValid(align_width, Len(output_buffer), width, height)
       THEN /\ Exit("panic: validation")
            /\ UNCHANGED <<gpu_queue, pending_writes, encoder, submits>>
       ELSE /\ gpu_queue' = gpu_queue \o pending_writes \o encoder
            /\ pending_writes' = <<>>
            /\ encoder' = <<>>
            /\ submits' = submits + 1
            /\ pc' = "map_async"
            /\ UNCHANGED <<error, exit_code>>
    /\ UNCHANGED <<overflow_checks, fs_input, kernel, width, height, buffer,
                   align_width, texture, output_texture, output_buffer,
                   map_state, map_result, receiver, buffer_view, read_src,
                   result, out_png, view_ret, gpu_log, alvars>>

\* view_into_buffer: slice, channel, map_async
MapAsync ==
    /\ pc = "map_async"
    /\ Called("map_async")
    /\ map_state' = "pending"
    /\ receiver' = "empty"
    /\ pc' = "poll"
    /\ UNCHANGED <<overflow_checks, fs_input, kernel, width, height, buffer,
                   align_width, texture, output_texture, output_buffer,
                   pending_writes, encoder, gpu_queue, submits, map_result,
                   buffer_view, read_src, result, out_png, error, exit_code,
                   view_ret, gpu_log, alvars>>

\* a mutant: Maintain::Poll, which does not wait for the device
PollNoWait ==
    /\ pc = "poll"
    /\ Called("poll")
    /\ \E status \in {"Ok", "Err"} :
          /\ map_result' = status
          /\ map_state' = IF status = "Ok" THEN "mapped" ELSE "unmapped"
          /\ receiver' = status
    /\ pc' = "await"
    /\ UNCHANGED <<overflow_checks, fs_input, kernel, width, height, buffer,
                   align_width, texture, output_texture, output_buffer,
                   pending_writes, encoder, gpu_queue, submits, buffer_view,
                   read_src, result, out_png, error, exit_code, view_ret,
                   gpu_log, alvars>>

\* view_into_buffer: device.poll(Maintain::Wait) returns once the device has
\* run what was submitted; the mapping is resolved and the callback sends its
\* status into the channel
Poll ==
    /\ pc = "poll"
    /\ gpu_queue = <<>>
    /\ Called("poll")
    /\ \E status \in {"Ok", "Err"} :
          /\ map_result' = status
          /\ map_state' = IF status = "Ok" THEN "mapped" ELSE "unmapped"
          /\ receiver' = status
    /\ pc' = "await"
    /\ UNCHANGED <<overflow_checks, fs_input, kernel, width, height, buffer,
                   align_width, texture, output_texture, output_buffer,
                   pending_writes, encoder, gpu_queue, submits, buffer_view,
                   read_src, result, out_png, error, exit_code, view_ret,
                   gpu_log, alvars>>

\* view_into_buffer: if let Ok(_) = receiver.await; the pattern matches
\* whatever status was sent, the else branch is taken when the sender was
\* dropped without sending
Await ==
    /\ pc = "await"
    /\ receiver # "empty"
    /\ Called("await")
    /\ IF receiver \in {"Ok", "Err"}
       THEN pc' = "get_mapped_range" /\ UNCHANGED <<error, exit_code, view_ret>>
       ELSE Exit("ReadbackFailed") /\ view_ret' = "Err"
    /\ UNCHANGED <<overflow_checks, fs_input, kernel, width, height, buffer,
                   align_width, texture, output_texture, output_buffer,
                   pending_writes, encoder, gpu_queue, submits, map_state,
                   map_result, receiver, buffer_view, read_src, result, out_png,
                   gpu_log, alvars>>

\* view_into_buffer: slice.get_mapped_range panics unless the buffer is mapped
GetMappedRange ==
    /\ pc = "get_mapped_range"
    /\ Called("get_mapped_range")
    /\ IF map_state = "mapped"
       THEN /\ buffer_view' = output_buffer
            /\ pc' = "trim"
            /\ UNCHANGED <<error, exit_code>>
       ELSE /\ Exit("panic: buffer is not mapped")
            /\ UNCHANGED buffer_view
    /\ UNCHANGED <<overflow_checks, fs_input, kernel, width, height, buffer,
                   align_width, texture, output_texture, output_buffer,
                   pending_writes, encoder, gpu_queue, submits, map_state,
                   map_result, receiver, read_src, result, out_png, view_ret,
                   gpu_log, alvars>>

\* view_into_buffer: trim_image_buffer(DATA_PER_PIXEL * width, height, view);
\* an index past the end of the view panics
Trim ==
    /\ pc = "trim"
    /\ Called("trim")
    /\ LET reads == trim_reads(DATA_PER_PIXEL * width, height, Len(buffer_view))
       IN  IF \E k \in 1..Len(reads) : reads[k] >= Len(buffer_view)
           THEN /\ Exit("panic: index out of bounds")
                /\ UNCHANGED <<result, read_src>>
           ELSE /\ result' = trim_image_buffer(DATA_PER_PIXEL * width, height,
                                               buffer_view)
                /\ read_src' = reads
                /\ pc' = "unmap"
                /\ UNCHANGED <<error, exit_code>>
    /\ UNCHANGED <<overflow_checks, fs_input, kernel, width, height, buffer,
                   align_width, texture, output_texture, output_buffer,
                   pending_writes, encoder, gpu_queue, submits, map_state,
                   map_result, receiver, buffer_view, out_png, view_ret, gpu_log,
                   alvars>>

\* view_into_buffer: drop the view, unmap, return Ok(buffer)
Unmap ==
    /\ pc = "unmap"
    /\ Called("unmap")
    /\ buffer_view' = <<>>
    /\ map_state' = "unmapped"
    /\ view_ret' = "Ok"
    /\ pc' = "save"
    /\ UNCHANGED <<overflow_checks, fs_input, kernel, width, height, buffer,
                   align_width, texture, output_texture, output_buffer,
                   pending_writes, encoder, gpu_queue, submits, map_result,
                   receiver, read_src, result, out_png, error, exit_code,
                   gpu_log, alvars>>

\* run: image::save_buffer to data/out.png, then main returns
Save ==
    /\ pc = "save"
    /\ Called("save")
    /\ \E written \in BOOLEAN :
          IF written
          THEN /\ out_png' = [state |-> "written", bytes |-> result]
               /\ pc' = "exit"
               /\ exit_code' = 0
               /\ UNCHANGED error
          ELSE /\ out_png' = [state |-> "partial", bytes |-> <<>>]
               /\ Exit("IoError")
    /\ UNCHANGED <<overflow_checks, fs_input, kernel, width, height, buffer,
                   align_width, texture, output_texture, output_buffer,
                   pending_writes, encoder, gpu_queue, submits, map_state,
                   map_result, receiver, buffer_view, read_src, result, view_ret,
                   gpu_log, alvars>>

\* the device runs the next submitted operation
GpuStep ==
    /\ gpu_queue # <<>>
    /\ LET cmd == Head(gpu_queue)
       IN  /\ gpu_queue' = Tail(gpu_queue)
           /\ gpu_log' = Append(gpu_log, cmd.op)
           /\ texture' =
                 IF cmd.op = "write_texture"
                 THEN WriteTexels(cmd.data, cmd.bytes_per_row, width, height)
                 ELSE texture
           /\ output_texture' =
                 IF cmd.op = "dispatch"
                 THEN Dispatch(kernel, texture, output_texture,
                               cmd.data[1], cmd.data[2], width)
                 ELSE output_texture
           /\ output_buffer' =
                 IF cmd.op = "copy_texture_to_buffer"
                 THEN CopyTextureToBuffer(output_texture, output_buffer,
                                          cmd.bytes_per_row, width, height)
                 ELSE output_buffer
    /\ UNCHANGED <<overflow_checks, fs_input, kernel, pc, width, height, buffer,
                   align_width, pending_writes, encoder, submits, map_state,
                   map_result, receiver, buffer_view, read_src, result, out_png,
                   error, exit_code, calls, view_ret, alvars>>

HostNext ==
    \/ OpenFile \/ Decode \/ RequestAdapter \/ RequestDevice
    \/ ComputeAlignWidth \/ WriteTexture \/ EncodeCommands \/ Submit
    \/ MapAsync \/ Poll \/ Await \/ GetMappedRange \/ Trim \/ Unmap \/ Save

Next == HostNext \/ GpuStep

Spec == Init /\ [][Next]_vars

\* the host runs when it can, and the device finishes what was submitted
FairSpec == Spec /\ WF_vars(HostNext) /\ WF_vars(GpuStep)

-----------------------------------------------------------------------------
(* Properties of align_up, under AlignSpec *)

\* x - y for x >= y
Minus(x, y) ==
    LET lo == x[2] - y[2]
    IN  IF lo < 0 THEN <<x[1] - y[1] - 1, lo + Limb>> ELSE <<x[1] - y[1], lo>>

\* r is a multiple of the power of two a
IsMultiple(r, a) ==
    IF a[1] = 0 THEN r[2] % a[2] = 0 ELSE r[2] = 0 /\ r[1] % a[1] = 0

\* r is the smallest multiple of a that is >= n
SmallestMultiple(r, n, a) ==
    /\ IsU32(r)
    /\ Le32(n, r)
    /\ IsMultiple(r, a)
    /\ Lt32(Minus(r, n), a)

\* the high limb of the sum n + a, carry included: >= Limb when n + a >= 2^32
SumHi(n, a) == n[1] + a[1] + ((n[2] + a[2]) \div Limb)

\* n + a < 2^32
SumFits(n, a) == SumHi(n, a) < Limb

\* n + a = 2^32
SumIsTwoTo32(n, a) == SumHi(n, a) = Limb /\ (n[2] + a[2]) % Limb = 0

\* 4 * w < 2^32, and its value
FourFits(w) == w[1] * 4 + ((w[2] * 4) \div Limb) < Limb

Four(w) == <<w[1] * 4 + ((w[2] * 4) \div Limb), (w[2] * 4) % Limb>>

Align == U32(COPY_BYTES_PER_ROW_ALIGNMENT)

AlignExamples ==
    /\ align_up(U32(12), U32(256)) = U32(256)
    /\ align_up(U32(256), U32(256)) = U32(256)
    /\ align_up(U32(257), U32(256)) = U32(512)
    /\ align_up(U32(0), U32(256)) = U32(0)

\* C4 as claimed: for every 32-bit n and power of two a, align_up(n, a) is the
\* smallest multiple of a that is >= n; for every width W the stride
\* align_up(4 * W, A) is >= 4 * W, a multiple of A and less than A above 4 * W
C4_Original ==
    /\ (al_mode = "align" /\ al_phase # "input")
          => SmallestMultiple(al_r, al_n, al_a)
    /\ (al_mode = "stride" /\ al_phase # "input")
          => FourFits(al_w) /\ SmallestMultiple(al_r, Four(al_w), Align)
    /\ AlignExamples

\* C4 amended: align_up(n, a) is the smallest multiple of a that is >= n when
\* n + a < 2^32, and also when n + a = 2^32 in a build that wraps on overflow;
\* the stride of a width W has the three properties under the same condition
\* on 4 * W and A; the four examples of the spec hold
C4_AlignUpSmallestMultiple ==
    /\ (/\ al_mode = "align" /\ al_phase # "input"
        /\ \/ SumFits(al_n, al_a)
           \/ ~overflow_checks /\ SumIsTwoTo32(al_n, al_a))
          => SmallestMultiple(al_r, al_n, al_a)
    /\ (/\ al_mode = "stride" /\ al_phase # "input"
        /\ FourFits(al_w)
        /\ \/ SumFits(Four(al_w), Align)
           \/ ~overflow_checks /\ SumIsTwoTo32(Four(al_w), Align))
          => SmallestMultiple(al_r, Four(al_w), Align)
    /\ AlignExamples

\* 2^32 - 511 is aligned up to 2^32 - 256
C4_Witness ==
    /\ al_mode = "align" /\ al_phase = "once"
    /\ al_n = <<Limb - 1, Limb - 511>> /\ al_a = U32(256)
    /\ al_r = <<Limb - 1, Limb - 256>>

\* C8 as claimed: for every n and power of two a,
\* align_up(align_up(n, a), a) = align_up(n, a)
C8_Original == al_phase = "twice" => al_rr = al_r

\* C8 amended: align_up(align_up(n, a), a) = align_up(n, a) in a build that
\* wraps on overflow, and in a build that checks overflow when
\* align_up(n, a) + a < 2^32 (otherwise the second call panics)
C8_AlignUpIdempotent ==
    (al_phase = "twice" /\ (~overflow_checks \/ SumFits(al_r, al_a)))
        => al_rr = al_r

\* the wrapped result 2^32 - 256 of 2^32 - 511 is a fixed point
C8_Witness ==
    /\ al_phase = "twice" /\ ~overflow_checks
    /\ al_n = <<Limb - 1, Limb - 511>> /\ al_a = U32(256)
    /\ al_rr = <<Limb - 1, Limb - 256>>

-----------------------------------------------------------------------------
(* Properties of the program, under Spec *)

RowBytes == DATA_PER_PIXEL * width

ImageBytes == DATA_PER_PIXEL * width * height

SubmittedOps == <<"write_texture", "dispatch", "copy_texture_to_buffer">>

\* the host is past trim_image_buffer
Trimmed == pc = "unmap" \/ calls["unmap"] = 1

\* C1: with the identity kernel and an input of 4 * W * H bytes, the bytes
\* manipulate_buffer returns, and the bytes written to data/out.png, equal the
\* input bytes
C1_IdentityRoundTrip ==
    (kernel = "identity" /\ Len(buffer) = ImageBytes)
        => /\ view_ret = "Ok" => result = buffer
           /\ out_png.state = "written" => out_png.bytes = buffer

\* scenario S2: 3 x 1, stride 256, the twelve bytes 1..12 come back
C1_Witness ==
    /\ view_ret = "Ok" /\ kernel = "identity"
    /\ width = 3 /\ height = 1 /\ align_width = 256
    /\ buffer = <<1, 2, 3, 4, 5, 6, 7, 8, 9, 10, 11, 12>>
    /\ result = buffer

\* C2: the readback buffer holds stride * H bytes, output byte i * 4W + j is
\* readback byte i * stride + j, read there, and no read falls into the padding
\* [i * stride + 4W, (i + 1) * stride)
C2_DestrideCorrect ==
    Trimmed =>
        /\ Len(output_buffer) = align_width * height
        /\ Len(read_src) = ImageBytes
        /\ \A i \in 0..(height - 1) : \A j \in 0..(RowBytes - 1) :
              /\ read_src[i * RowBytes + j + 1] = i * align_width + j
              /\ result[i * RowBytes + j + 1]
                    = output_buffer[i * align_width + j + 1]
        /\ \A k \in 1..Len(read_src) : read_src[k] % align_width < RowBytes

\* two rows of 12 bytes in a readback buffer of stride 256
C2_Witness ==
    /\ pc = "unmap" /\ width = 3 /\ height = 2
    /\ align_width = 256 /\ Len(output_buffer) = 512
    /\ read_src[13] = 256

\* C3: what view_into_buffer returns on success has length 4 * W * H
C3_SizePreserved ==
    /\ view_ret = "Ok" => Len(result) = ImageBytes
    /\ out_png.state = "written" => Len(out_png.bytes) = ImageBytes

\* 65 x 2: 520 bytes come back from a readback buffer of 1024
C3_Witness ==
    /\ view_ret = "Ok" /\ width = ExactWidth + 1 /\ height = 2
    /\ Len(output_buffer) = 1024 /\ Len(result) = 520

\* C5 as claimed: when the map callback was invoked with an error,
\* view_into_buffer returns ReadbackFailed and does not take the success branch
C5_MapFailureIsError ==
    (map_result = "Err" /\ calls["await"] = 1)
        => /\ view_ret = "Err"
           /\ error = "ReadbackFailed"
           /\ calls["get_mapped_range"] = 0

\* C6: data/out.png is touched only by the save that follows a successful
\* return of manipulate_buffer; a run that ends before the save, or with an
\* error, exits non-zero; no step runs twice
C6_NoPartialOutput ==
    /\ out_png.state # "untouched" => view_ret = "Ok" /\ calls["save"] = 1
    /\ (pc = "exit" /\ error # "none") => exit_code # 0
    /\ (pc = "exit" /\ calls["save"] = 0)
          => exit_code # 0 /\ error # "none" /\ out_png.state = "untouched"
    /\ (pc = "exit" /\ exit_code = 0) => out_png.state = "written"
    /\ \A s \in Steps : calls[s] <= 1

\* scenario S6: no adapter
C6_Witness ==
    /\ pc = "exit" /\ error = "NoAdapter" /\ exit_code # 0
    /\ out_png.state = "untouched" /\ calls["request_device"] = 0

\* C7 as claimed: the bytes run hands to the core are 4 * W * H bytes
C7_InputIsRgba8 ==
    (calls["decode"] = 1 /\ error # "DecodeError") => Len(buffer) = ImageBytes

\* C9: the upload is staged before the one submit; the device runs upload,
\* dispatch, copy in this order; the map is requested after the submit; the
\* host reads after the map succeeded and the copy ran; the unmap follows the
\* read; nothing is submitted or pending on the device while the buffer is
\* mapped
C9_HostDeviceOrdering ==
    /\ submits <= 1
    /\ submits = 0 => gpu_queue = <<>> /\ gpu_log = <<>>
    /\ submits = 1 =>
          /\ calls["write_texture"] = 1 /\ pending_writes = <<>>
          /\ gpu_log \o [k \in 1..Len(gpu_queue) |-> gpu_queue[k].op]
                = SubmittedOps
    /\ calls["map_async"] = 1 => submits = 1
    /\ map_state # "unmapped" => submits = 1 /\ calls["unmap"] = 0
    /\ map_state = "mapped" => gpu_queue = <<>>
    /\ (buffer_view # <<>> \/ calls["trim"] = 1)
          => map_result = "Ok" /\ gpu_log = SubmittedOps
    /\ pc = "trim" => map_state = "mapped"
    /\ calls["unmap"] = 1 => calls["trim"] = 1

\* the host is about to read the mapped bytes
C9_Witness ==
    /\ pc = "trim" /\ map_state = "mapped" /\ buffer_view = output_buffer
    /\ gpu_log = SubmittedOps /\ submits = 1

\* C10 as claimed: once the device is polled, view_into_buffer eventually
\* returns pixel bytes or an error
C10_MapWaitReturns == (pc = "poll") ~> (view_ret \in {"Ok", "Err"})

====
